---- MODULE Spec2Model ----
(***************************************************************************)
(* gridish: British (OSGB) and Irish (OSI) national grid references.       *)
(*                                                                         *)
(* A Rust String / &str is a sequence of characters, each character a      *)
(* one-character TLA+ string; byte lengths and byte indices are computed   *)
(* with len_utf8.  A Result is a record [tag |-> "Ok", val |-> v] or       *)
(* [tag |-> "Err", err |-> e]; a panic (failed unwrap, arithmetic overflow *)
(* with overflow checks on, a slice off a character boundary) is           *)
(* [tag |-> "Panic", why |-> w].  Error messages are TLA+ strings.         *)
(*                                                                         *)
(* The integers of the model checker are 32-bit signed, so a raw u32       *)
(* argument is held as two limbs [hi, lo] of base 1,000,000; values known  *)
(* to be below 2^31 are plain integers.                                    *)
(***************************************************************************)
EXTENDS Integers, Sequences, FiniteSets, TLC

VARIABLES
    call,    \* the last call: its operation and arguments
    ret,     \* what the last call returned (Ok, Err) or that it panicked
    osgb,    \* the OSGB reference held, None or Some
    osi,     \* the OSI reference held, None or Some
    origin   \* what was called first: "start" (nothing yet), "new", "from_str",
             \* "deserialize", "tetrads", "metres", "lookup", "digits", "trim"

vars == <<call, ret, osgb, osi, origin>>

----------------------------------------------------------------------------
(* Result, Option and panics *)

Ok(v) == [tag |-> "Ok", val |-> v]

Err(e) == [tag |-> "Err", err |-> e]

Panic(w) == [tag |-> "Panic", why |-> w]

None == [tag |-> "None"]

Some(v) == [tag |-> "Some", val |-> v]

ParseError(m) == [variant |-> "ParseError", msg |-> m]

InvalidPrecision(m) == [variant |-> "InvalidPrecision", msg |-> m]

OutOfBounds == [variant |-> "OutOfBounds", msg |-> ""]

----------------------------------------------------------------------------
(* constants.rs *)

_1M == 1

_10M == 10

_100M == 100

_1KM == 1000

_10KM == 10000

_100KM == 100000

_500KM == 500000

----------------------------------------------------------------------------
(* u32 arithmetic on the raw arguments of new *)

Limb == 10 * _100KM

U32(n) == [hi |-> n \div Limb, lo |-> n % Limb]

U32_MAX == [hi |-> 4294, lo |-> 967295]

U32Lt(x, y) == x.hi < y.hi \/ (x.hi = y.hi /\ x.lo < y.lo)

\* x as an integer of the model; for x below 2^31.
U32Int(x) == x.hi * Limb + x.lo

\* x + b for an integer b below 2^31.  An overflow panics when the build has
\* overflow checks (debug profile) and wraps modulo 2^32 otherwise (release).
U32Add(x, b, checks) ==
    LET lo  == x.lo + (b % Limb)
        sum == [hi |-> x.hi + (b \div Limb) + (lo \div Limb), lo |-> lo % Limb]
        \* sum - 2^32, 2^32 = 4294 * 10^6 + 967296
        wrapped == IF sum.lo >= 967296
                     THEN [hi |-> sum.hi - 4294, lo |-> sum.lo - 967296]
                     ELSE [hi |-> sum.hi - 4295, lo |-> sum.lo + Limb - 967296]
    IN  IF U32Lt(U32_MAX, sum)
          THEN IF checks THEN Panic("attempt to add with overflow") ELSE Ok(wrapped)
          ELSE Ok(sum)

\* x / d and x % d for a divisor d of 10^6; the quotient is below 2^31.
U32Div(x, d) == x.hi * (Limb \div d) + (x.lo \div d)

U32Mod(x, d) == x.lo % d

----------------------------------------------------------------------------
(* precision.rs *)

Precisions == <<"_100Km", "_10Km", "_1Km", "_100M", "_10M", "_1M">>

Precision == {Precisions[i] : i \in 1..Len(Precisions)}

\* derive(PartialOrd, Ord): the order of declaration.
PrecisionOrd(p) == CHOOSE i \in 1..Len(Precisions) : Precisions[i] = p

\* The 10 km precision given the width of the 100 km one.
Precision_metres_10km_as_100km(p) ==
    CASE p = "_100Km" -> _100KM
      [] p = "_10Km"  -> _100KM
      [] p = "_1Km"   -> _1KM
      [] p = "_100M"  -> _100M
      [] p = "_10M"   -> _10M
      [] p = "_1M"    -> _1M

\* The 1 km precision given the width of the 100 m one.
Precision_metres_1km_as_100m(p) ==
    CASE p = "_100Km" -> _100KM
      [] p = "_10Km"  -> _10KM
      [] p = "_1Km"   -> _100M
      [] p = "_100M"  -> _100M
      [] p = "_10M"   -> _10M
      [] p = "_1M"    -> _1M

Precision_metres(p) ==
    CASE p = "_100Km" -> _100KM
      [] p = "_10Km"  -> _10KM
      [] p = "_1Km"   -> _1KM
      [] p = "_100M"  -> _100M
      [] p = "_10M"   -> _10M
      [] p = "_1M"    -> _1M

Precision_digits(p) ==
    CASE p = "_100Km" -> 0
      [] p = "_10Km"  -> 2
      [] p = "_1Km"   -> 4
      [] p = "_100M"  -> 6
      [] p = "_10M"   -> 8
      [] p = "_1M"    -> 10

----------------------------------------------------------------------------
(* grid.rs *)

GRID_WIDTH == 5

GRID == << "V", "W", "X", "Y", "Z", "Q", "R", "S", "T", "U", "L", "M", "N", "O", "P",
           "F", "G", "H", "J", "K", "A", "B", "C", "D", "E" >>

\* grid.iter().position(|x| x == square): the first index (from 0), or None.
position(grid, square) ==
    IF \E i \in 1..Len(grid) : grid[i] = square
      THEN Some((CHOOSE i \in 1..Len(grid) :
                    grid[i] = square /\ \A j \in 1..(i - 1) : grid[j] # square) - 1)
      ELSE None

\* Column and row taken the wrong way round.
grid_to_coords_swapped(square, grid) ==
    LET index == position(grid, square)
    IN  IF index.tag = "None"
          THEN Err(ParseError(square \o " is not a valid grid square."))
          ELSE Ok(<<index.val \div GRID_WIDTH, index.val % GRID_WIDTH>>)

grid_to_coords(square, grid) ==
    LET index == position(grid, square)
    IN  IF index.tag = "None"
          THEN Err(ParseError(square \o " is not a valid grid square."))
          ELSE Ok(<<index.val % GRID_WIDTH, index.val \div GRID_WIDTH>>)

coords_to_grid(column, row, grid) ==
    IF column >= GRID_WIDTH \/ row >= GRID_WIDTH
      THEN Err(OutOfBounds)
      ELSE LET index == column + (GRID_WIDTH * row)
           IN  IF index < Len(grid) THEN Ok(grid[index + 1]) ELSE Err(OutOfBounds)

square_to_coords(square) == grid_to_coords(square, GRID)

coords_to_square(column, row) == coords_to_grid(column, row, GRID)

\* The grid used for tetrad coordinates (feature tetrads).
TETRAD_GRID == << "A", "F", "K", "Q", "V", "B", "G", "L", "R", "W", "C", "H", "M", "S", "X",
                  "D", "I", "N", "T", "Y", "E", "J", "P", "U", "Z" >>

\* The letter looked up in the grid of the 100 km squares.
tetrad_to_coords_main_grid(square) == grid_to_coords(square, GRID)

tetrad_to_coords(square) == grid_to_coords(square, TETRAD_GRID)

coords_to_tetrad(column, row) == coords_to_grid(column, row, TETRAD_GRID)

----------------------------------------------------------------------------
(* str: bytes, slices, u32::from_str, integer formatting *)

\* char::len_utf8 of the characters the inputs are drawn from.
len_utf8(c) == IF c = "é" THEN 2 ELSE IF c = "€" THEN 3 ELSE 1

RECURSIVE str_len(_)
\* str::len: the length in bytes.
str_len(s) == IF s = <<>> THEN 0 ELSE len_utf8(Head(s)) + str_len(Tail(s))

\* str::is_char_boundary: byte index mid is the start of a character or the end.
is_char_boundary(s, mid) == \E k \in 0..Len(s) : str_len(SubSeq(s, 1, k)) = mid

chars_before(s, mid) == CHOOSE k \in 0..Len(s) : str_len(SubSeq(s, 1, k)) = mid

\* str::split_at(mid): panics when mid is not on a character boundary.
split_at(s, mid) ==
    IF is_char_boundary(s, mid)
      THEN Ok(<<SubSeq(s, 1, chars_before(s, mid)),
                SubSeq(s, chars_before(s, mid) + 1, Len(s))>>)
      ELSE Panic("byte index is not a char boundary")

\* &s[begin..s.len()]: panics when begin is not on a character boundary.
slice_from(s, begin) ==
    IF is_char_boundary(s, begin)
      THEN Ok(SubSeq(s, chars_before(s, begin) + 1, Len(s)))
      ELSE Panic("byte index is not a char boundary")

DecimalDigits == << "0", "1", "2", "3", "4", "5", "6", "7", "8", "9" >>

is_digit(c) == \E d \in 1..10 : DecimalDigits[d] = c

to_digit(c) == (CHOOSE d \in 1..10 : DecimalDigits[d] = c) - 1

RECURSIVE digits_value(_)
digits_value(s) ==
    IF s = <<>> THEN 0 ELSE digits_value(SubSeq(s, 1, Len(s) - 1)) * 10 + to_digit(s[Len(s)])

\* <u32 as FromStr>::from_str: an optional leading '+', then decimal digits.
\* The strings it is given here have at most five bytes, so PosOverflow cannot
\* arise and is left out.
parse_u32(s) ==
    IF s = <<>> THEN Err("ParseIntError { kind: Empty }")
    ELSE IF s = <<"+">> \/ s = <<"-">> THEN Err("ParseIntError { kind: InvalidDigit }")
    ELSE LET ds == IF Head(s) = "+" THEN Tail(s) ELSE s
         IN  IF \A i \in 1..Len(ds) : is_digit(ds[i])
               THEN Ok(digits_value(ds))
               ELSE Err("ParseIntError { kind: InvalidDigit }")

RECURSIVE to_decimal(_)
\* Display of an unsigned integer.
to_decimal(v) ==
    IF v < 10 THEN <<DecimalDigits[v + 1]>>
    ELSE to_decimal(v \div 10) \o <<DecimalDigits[(v % 10) + 1]>>

RECURSIVE zeros(_)
zeros(k) == IF k <= 0 THEN <<>> ELSE <<"0">> \o zeros(k - 1)

\* format!("{:0width$}", v): zero-padded on the left to at least width.
format_padded(v, width) == zeros(width - Len(to_decimal(v))) \o to_decimal(v)

----------------------------------------------------------------------------
(* utils.rs *)

\* Variant of the length test that refuses only a count over 10.
digits_len_invalid_odd_accepted(s) == str_len(s) > 10

\* The test of the length in digits: over 10, or not even.
digits_len_invalid(s) == str_len(s) > 10 \/ (str_len(s) % 2) # 0

digits(s) ==
    IF digits_len_invalid(s)
      THEN Err(ParseError(ToString(str_len(s))
             \o " is not a valid number of digits. Supported values: 0, 2, 4, 6, 8, 10."))
    ELSE
      LET split == split_at(s, str_len(s) \div 2)
          e == parse_u32(split.val[1])
          n == parse_u32(split.val[2])
          en == IF s = <<>> THEN Ok(<<0, 0>>)
                ELSE IF split.tag = "Panic" THEN split
                ELSE IF e.tag = "Err" THEN Err(ParseError(e.err))
                ELSE IF n.tag = "Err" THEN Err(ParseError(n.err))
                ELSE Ok(<<e.val, n.val>>)
          precision ==
              CASE str_len(s) = 0  -> Ok("_100Km")
                [] str_len(s) = 2  -> Ok("_10Km")
                [] str_len(s) = 4  -> Ok("_1Km")
                [] str_len(s) = 6  -> Ok("_100M")
                [] str_len(s) = 8  -> Ok("_10M")
                [] str_len(s) = 10 -> Ok("_1M")
                [] OTHER -> Err(InvalidPrecision(ToString(str_len(s))
                                   \o " is not a valid number of digits"))
      IN  IF en.tag # "Ok" THEN en
          ELSE IF precision.tag # "Ok" THEN precision
          ELSE Ok(<<en.val[1] * Precision_metres(precision.val),
                    en.val[2] * Precision_metres(precision.val),
                    precision.val>>)

AsciiLower == << "a", "b", "c", "d", "e", "f", "g", "h", "i", "j", "k", "l", "m",
                 "n", "o", "p", "q", "r", "s", "t", "u", "v", "w", "x", "y", "z" >>

AsciiUpper == << "A", "B", "C", "D", "E", "F", "G", "H", "I", "J", "K", "L", "M",
                 "N", "O", "P", "Q", "R", "S", "T", "U", "V", "W", "X", "Y", "Z" >>

\* The space alone taken as whitespace.
is_ascii_whitespace_space_only(c) == c = " "

\* char::is_ascii_whitespace: space, tab, line feed, form feed, carriage return.
is_ascii_whitespace(c) == c \in {" ", "\t", "\n", "\f", "\r"}

to_ascii_uppercase(c) ==
    IF \E i \in 1..26 : AsciiLower[i] = c
      THEN AsciiUpper[CHOOSE i \in 1..26 : AsciiLower[i] = c]
      ELSE c

not_whitespace(c) == ~is_ascii_whitespace(c)

RECURSIVE trim_start(_)
trim_start(s) ==
    IF s # <<>> /\ is_ascii_whitespace(Head(s)) THEN trim_start(Tail(s)) ELSE s

RECURSIVE trim_end(_)
trim_end(s) ==
    IF s # <<>> /\ is_ascii_whitespace(s[Len(s)])
      THEN trim_end(SubSeq(s, 1, Len(s) - 1))
      ELSE s

\* Whitespace removed at the two ends only, as str::trim does.
trim_string_ends_only(s) ==
    LET kept == trim_end(trim_start(s))
    IN  [i \in 1..Len(kept) |-> to_ascii_uppercase(kept[i])]

trim_string(s) ==
    LET kept == SelectSeq(s, not_whitespace)
    IN  [i \in 1..Len(kept) |-> to_ascii_uppercase(kept[i])]

----------------------------------------------------------------------------
(* coordinates/metres.rs: Metres(u32), held as its inner value *)

\* Cut up to the next multiple instead of down.
Metres_precision_up(m, precision) ==
    m + ((Precision_metres(precision) - (m % Precision_metres(precision)))
           % Precision_metres(precision))

Metres_precision(m, precision) == m - (m % Precision_metres(precision))

\* The digits without the zero fill: format!("{}", ..).
Metres_padded_unpadded(m, precision) ==
    IF Precision_digits(precision) = 0 THEN <<>>
    ELSE to_decimal((m % _100KM) \div Precision_metres(precision))

Metres_padded(m, precision) ==
    IF Precision_digits(precision) = 0 THEN <<>>
    ELSE format_padded((m % _100KM) \div Precision_metres(precision),
                       Precision_digits(precision) \div 2)

\* The bound itself accepted: > in place of >=.
Metres_try_from_inclusive(value) ==
    IF U32Lt(U32(_500KM), value) THEN Err(OutOfBounds) ELSE Ok(U32Int(value))

\* TryFrom<u32> for Metres, of a raw u32.
Metres_try_from(value) ==
    IF ~U32Lt(value, U32(_500KM)) THEN Err(OutOfBounds) ELSE Ok(U32Int(value))

----------------------------------------------------------------------------
(* coordinates/point.rs (default features: no tetrads) *)

\* The coordinates stored as given, not truncated to the precision.
Point_new_untruncated(eastings, northings, precision) ==
    [eastings |-> eastings, northings |-> northings, precision |-> precision]

Point_new(eastings, northings, precision) ==
    [eastings  |-> Metres_precision(eastings, precision),
     northings |-> Metres_precision(northings, precision),
     precision |-> precision]

Point_from_str(s) ==
    IF s = <<>> THEN Err(ParseError("String can not be empty."))
    ELSE
      LET c == Head(s)
          sq == square_to_coords(c)
          eastings == sq.val[1] * _100KM
          northings == sq.val[2] * _100KM
          rest == slice_from(s, 1)
          d == digits(rest.val)
          e == Metres_try_from(U32(eastings + d.val[1]))
          n == Metres_try_from(U32(northings + d.val[2]))
      IN  IF sq.tag # "Ok" THEN sq
          ELSE IF rest.tag # "Ok" THEN rest
          ELSE IF d.tag # "Ok" THEN d
          ELSE IF e.tag # "Ok" THEN e
          ELSE IF n.tag # "Ok" THEN n
          ELSE Ok([eastings |-> e.val, northings |-> n.val, precision |-> d.val[3]])

\* Display for Point; the unwrap of the letter lookup panics on an error.
Point_fmt(self) ==
    LET column == self.eastings \div _100KM
        row == self.northings \div _100KM
        letter == coords_to_square(column, row)
    IN  IF letter.tag # "Ok" THEN Panic("called Result::unwrap() on an Err value")
        ELSE Ok(<<letter.val>> \o Metres_padded(self.eastings, self.precision)
                               \o Metres_padded(self.northings, self.precision))

----------------------------------------------------------------------------
(* coordinates/point.rs with the feature tetrads.  Precision::_2Km is the    *)
(* precision the tetrad case names; it is only stored and compared here.     *)

_2KM == 2000

\* char::is_ascii_alphabetic
is_ascii_alphabetic(c) ==
    \E i \in 1..26 : AsciiLower[i] = c \/ AsciiUpper[i] = c

\* &s[begin..end]: panics when an index is not on a character boundary.
slice(s, begin, end) ==
    IF is_char_boundary(s, begin) /\ is_char_boundary(s, end)
      THEN Ok(SubSeq(s, chars_before(s, begin) + 1, chars_before(s, end)))
      ELSE Panic("byte index is not a char boundary")

Point_from_str_tetrads(s) ==
    IF s = <<>> THEN Err(ParseError("String can not be empty."))
    ELSE
      LET sq == square_to_coords(Head(s))
          c == s[Len(s)]
          tetrad == tetrad_to_coords(c)
          eastings == (sq.val[1] * _100KM) + (tetrad.val[1] * _2KM)
          northings == (sq.val[2] * _100KM) + (tetrad.val[2] * _2KM)
          rest == slice(s, 1, str_len(s) - 1)
          d == digits(rest.val)
          e == Metres_try_from(U32(eastings + d.val[1]))
          n == Metres_try_from(U32(northings + d.val[2]))
      IN  IF sq.tag # "Ok" THEN sq
          ELSE IF str_len(s) = 4 /\ is_ascii_alphabetic(c)
            THEN IF tetrad.tag # "Ok" THEN tetrad
                 ELSE IF rest.tag # "Ok" THEN rest
                 ELSE IF d.tag # "Ok" THEN d
                 ELSE IF e.tag # "Ok" THEN e
                 ELSE IF n.tag # "Ok" THEN n
                 ELSE Ok([eastings |-> e.val, northings |-> n.val, precision |-> "_2Km"])
            ELSE Point_from_str(s)

Point_fmt_tetrads(self) ==
    LET column == self.eastings \div _100KM
        row == self.northings \div _100KM
        letter == coords_to_square(column, row)
        tetrad_column == (self.eastings % _10KM) \div _2KM
        tetrad_row == (self.northings % _10KM) \div _2KM
        tetrad == coords_to_tetrad(tetrad_column, tetrad_row)
    IN  IF letter.tag # "Ok" THEN Panic("called Result::unwrap() on an Err value")
        ELSE IF self.precision = "_2Km"
          THEN IF tetrad.tag # "Ok" THEN Panic("called Result::unwrap() on an Err value")
               ELSE Ok(<<letter.val>> \o Metres_padded(self.eastings, "_10Km")
                                      \o Metres_padded(self.northings, "_10Km")
                                      \o <<tetrad.val>>)
          ELSE Point_fmt(self)

----------------------------------------------------------------------------
(* osgb.rs *)

OFFSET_EAST == _500KM * 2

OFFSET_NORTH == _500KM

\* One more letter in the list of supported squares.
SUPPORTED_500K_with_J == {"S", "T", "N", "O", "H", "J"}

SUPPORTED_500K == {"S", "T", "N", "O", "H"}

\* eastings and northings are raw u32 values (limbs).
OSGB_new(eastings, northings, precision, checks) ==
    LET east == U32Add(eastings, OFFSET_EAST, checks)
        north == U32Add(northings, OFFSET_NORTH, checks)
        square_500k_east == U32Div(east.val, _500KM)
        square_500k_north == U32Div(north.val, _500KM)
        square == coords_to_square(square_500k_east, square_500k_north)
        e == Metres_try_from(U32(U32Mod(eastings, _500KM)))
        n == Metres_try_from(U32(U32Mod(northings, _500KM)))
    IN  IF east.tag # "Ok" THEN east
        ELSE IF north.tag # "Ok" THEN north
        ELSE IF square.tag # "Ok" THEN square
        ELSE IF square.val \notin SUPPORTED_500K
          THEN Err(ParseError(square.val \o " is not a supported 500km square."))
        ELSE IF e.tag # "Ok" THEN e
        ELSE IF n.tag # "Ok" THEN n
        ELSE Ok([square_500k_east  |-> square_500k_east,
                 square_500k_north |-> square_500k_north,
                 point |-> Point_new(e.val, n.val, precision)])

\* The point rebuilt at the requested precision whatever the current one.
OSGB_recalculate_always(self, precision) ==
    [square_500k_east  |-> self.square_500k_east,
     square_500k_north |-> self.square_500k_north,
     point |-> Point_new(self.point.eastings, self.point.northings, precision)]

OSGB_recalculate(self, precision) ==
    IF PrecisionOrd(precision) > PrecisionOrd(self.point.precision)
      THEN self
      ELSE [square_500k_east  |-> self.square_500k_east,
            square_500k_north |-> self.square_500k_north,
            point |-> Point_new(self.point.eastings, self.point.northings, precision)]

\* The rest of the string parsed before the first letter is looked up.
OSGB_from_str_point_first(s) ==
    LET string == trim_string(s)
        c == Head(string)
        sq == square_to_coords(c)
        rest == slice_from(string, 1)
        point == Point_from_str(rest.val)
    IN  IF string = <<>> THEN Err(ParseError("String can not be empty."))
        ELSE IF rest.tag # "Ok" THEN rest
        ELSE IF point.tag # "Ok" THEN point
        ELSE IF sq.tag # "Ok" THEN sq
        ELSE Ok([square_500k_east  |-> sq.val[1],
                 square_500k_north |-> sq.val[2],
                 point |-> point.val])

OSGB_from_str(s) ==
    LET string == trim_string(s)
        c == Head(string)
        sq == square_to_coords(c)
        rest == slice_from(string, 1)
        point == Point_from_str(rest.val)
    IN  IF string = <<>> THEN Err(ParseError("String can not be empty."))
        ELSE IF sq.tag # "Ok" THEN sq
        ELSE IF rest.tag # "Ok" THEN rest
        ELSE IF point.tag # "Ok" THEN point
        ELSE Ok([square_500k_east  |-> sq.val[1],
                 square_500k_north |-> sq.val[2],
                 point |-> point.val])

\* Display for OSGB; both letter lookups are unwrapped.
OSGB_fmt(self) ==
    LET square == coords_to_square(self.square_500k_east, self.square_500k_north)
        point == Point_fmt(self.point)
    IN  IF square.tag # "Ok" THEN Panic("called Result::unwrap() on an Err value")
        ELSE IF point.tag # "Ok" THEN point
        ELSE Ok(<<square.val>> \o point.val)

\* a - b on u32, for integers a, b: an underflow panics with overflow checks
\* and wraps modulo 2^32 without.  The result is a raw u32 (limbs).
U32Sub(a, b, checks) ==
    IF a >= b THEN Ok(U32(a - b))
    ELSE IF checks THEN Panic("attempt to subtract with overflow")
    ELSE \* 2^32 - (b - a), 2^32 = 4294 * 10^6 + 967296
         LET d == b - a
         IN  Ok(IF d % Limb <= 967296
                  THEN [hi |-> 4294 - (d \div Limb), lo |-> 967296 - (d % Limb)]
                  ELSE [hi |-> 4293 - (d \div Limb), lo |-> 967296 + Limb - (d % Limb)])

OSGB_eastings(self, checks) ==
    LET east_500k == U32Sub(self.square_500k_east * _500KM, OFFSET_EAST, checks)
    IN  IF east_500k.tag # "Ok" THEN east_500k
        ELSE U32Add(east_500k.val, self.point.eastings, checks)

\* The offset of the eastings subtracted from the northings.
OSGB_northings_east_offset(self, checks) ==
    LET north_500k == U32Sub(self.square_500k_north * _500KM, OFFSET_EAST, checks)
    IN  IF north_500k.tag # "Ok" THEN north_500k
        ELSE U32Add(north_500k.val, self.point.northings, checks)

OSGB_northings(self, checks) ==
    LET north_500k == U32Sub(self.square_500k_north * _500KM, OFFSET_NORTH, checks)
    IN  IF north_500k.tag # "Ok" THEN north_500k
        ELSE U32Add(north_500k.val, self.point.northings, checks)

\* geo_types::Point::new(x, y) of the two coordinates (u32 as f64 is exact).
OSGB_sw(self, checks) ==
    LET x == OSGB_eastings(self, checks)
        y == OSGB_northings(self, checks)
    IN  IF x.tag # "Ok" THEN x ELSE IF y.tag # "Ok" THEN y ELSE Ok(<<x.val, y.val>>)

\* self.point.precision().metres()
OSGB_metres(self) == Precision_metres(self.point.precision)

\* A u32 coordinate plus the width of the cell, on u32.
OSGB_plus_metres(coord, self, checks) ==
    IF coord.tag # "Ok" THEN coord ELSE U32Add(coord.val, OSGB_metres(self), checks)

\* geo_types::Point::new(x, y): the arguments are evaluated in order, and a
\* panic of either is the outcome.
Point_of(x, y) ==
    IF x.tag # "Ok" THEN x ELSE IF y.tag # "Ok" THEN y ELSE Ok(<<x.val, y.val>>)

\* The northings left as they are: the corner of the south-west.
OSGB_nw_no_metres(self, checks) ==
    Point_of(OSGB_eastings(self, checks), OSGB_northings(self, checks))

OSGB_nw(self, checks) ==
    Point_of(OSGB_eastings(self, checks),
             OSGB_plus_metres(OSGB_northings(self, checks), self, checks))

OSGB_ne(self, checks) ==
    Point_of(OSGB_plus_metres(OSGB_eastings(self, checks), self, checks),
             OSGB_plus_metres(OSGB_northings(self, checks), self, checks))

OSGB_se(self, checks) ==
    Point_of(OSGB_plus_metres(OSGB_eastings(self, checks), self, checks),
             OSGB_northings(self, checks))

\* v as f64 + (metres as f64 / 2.0): exact in f64 and never wrapping.  The
\* value is held as its whole part (limbs) and its number of halves, 0 or 1.
F64_plus_half(v, metres) ==
    IF v.tag # "Ok" THEN v
    ELSE LET lo == v.val.lo + (metres \div 2)
         IN  Ok([hi |-> v.val.hi + (lo \div Limb), lo |-> lo % Limb, halves |-> metres % 2])

OSGB_centre(self, checks) ==
    Point_of(F64_plus_half(OSGB_eastings(self, checks), OSGB_metres(self)),
             F64_plus_half(OSGB_northings(self, checks), OSGB_metres(self)))

\* LineString::from(vec![sw, nw, ne, se]): the points the exterior of the
\* Polygon is made from, in order; a panic of an accessor is the outcome.
LineString_from(sw, nw, ne, se) ==
    IF sw.tag # "Ok" THEN sw
    ELSE IF nw.tag # "Ok" THEN nw
    ELSE IF ne.tag # "Ok" THEN ne
    ELSE IF se.tag # "Ok" THEN se
    ELSE Ok(<<sw.val, nw.val, ne.val, se.val>>)

OSGB_perimeter(self, checks) ==
    LineString_from(OSGB_sw(self, checks), OSGB_nw(self, checks),
                    OSGB_ne(self, checks), OSGB_se(self, checks))

----------------------------------------------------------------------------
(* osi.rs *)

OSI_new(eastings, northings, precision) ==
    LET e == Metres_try_from(eastings)
        n == Metres_try_from(northings)
    IN  IF e.tag # "Ok" THEN e
        ELSE IF n.tag # "Ok" THEN n
        ELSE Ok([point |-> Point_new(e.val, n.val, precision)])

OSI_recalculate(self, precision) ==
    IF PrecisionOrd(precision) > PrecisionOrd(self.point.precision)
      THEN self
      ELSE [point |-> Point_new(self.point.eastings, self.point.northings, precision)]

OSI_from_str(s) ==
    LET point == Point_from_str(trim_string(s))
    IN  IF point.tag # "Ok" THEN point ELSE Ok([point |-> point.val])

OSI_fmt(self) == Point_fmt(self.point)

OSI_metres(self) == Precision_metres(self.point.precision)

\* point.eastings().inner() + point.precision().metres(), on u32.
OSI_plus_metres(coord, self, checks) == U32Add(U32(coord), OSI_metres(self), checks)

OSI_sw(self, checks) == Point_of(Ok(U32(self.point.eastings)), Ok(U32(self.point.northings)))

OSI_nw(self, checks) ==
    Point_of(Ok(U32(self.point.eastings)),
             OSI_plus_metres(self.point.northings, self, checks))

OSI_ne(self, checks) ==
    Point_of(OSI_plus_metres(self.point.eastings, self, checks),
             OSI_plus_metres(self.point.northings, self, checks))

OSI_se(self, checks) ==
    Point_of(OSI_plus_metres(self.point.eastings, self, checks),
             Ok(U32(self.point.northings)))

OSI_centre(self, checks) ==
    Point_of(F64_plus_half(Ok(U32(self.point.eastings)), OSI_metres(self)),
             F64_plus_half(Ok(U32(self.point.northings)), OSI_metres(self)))

OSI_perimeter(self, checks) ==
    LineString_from(OSI_sw(self, checks), OSI_nw(self, checks),
                    OSI_ne(self, checks), OSI_se(self, checks))

----------------------------------------------------------------------------
(* error.rs, and the serde modules of osgb.rs and osi.rs *)

\* Display for Error: the same text for every variant and message.
Error_fmt(e) == "Error parsing string"

\* serde::de::Error::custom(msg): an error whose message is msg.to_string().
de_Error_custom(msg) == [custom |-> msg]

\* Result::map_err(E::custom)
map_err_custom(parsed) ==
    IF parsed.tag = "Err" THEN Err(de_Error_custom(Error_fmt(parsed.err))) ELSE parsed

\* value.parse().map_err(E::custom)
OSGBVisitor_visit_str(value) == map_err_custom(OSGB_from_str(value))

OSIVisitor_visit_str(value) == map_err_custom(OSI_from_str(value))

----------------------------------------------------------------------------
(* The inputs the calls are made with *)

\* 500 km squares sampled on each axis for the coordinates given to new.
MaxSuper == 4

\* Digits sampled in each half of the digit part of a string.
MaxHalf == 6

Within == {0, 100000, 389291, 499999}

\* The last values below 2^32, around the two overflow thresholds of OSGB::new.
HighCoords == { U32_MAX,
                [hi |-> 4294, lo |-> 467296], [hi |-> 4294, lo |-> 467295],
                [hi |-> 4293, lo |-> 967296], [hi |-> 4293, lo |-> 967295] }

Coords == {U32((sq * _500KM) + w) : sq \in 0..MaxSuper, w \in Within} \cup HighCoords

\* The coordinates of the OSI example O892437 as well.
OSIWithin == Within \cup {243700, 389200}

OSICoords == {U32((sq * _500KM) + w) : sq \in 0..1, w \in OSIWithin} \cup HighCoords

DigitPatterns == << <<"8", "9", "2", "9", "1">>, <<"4", "3", "7", "6", "2">>,
                    <<"0", "0", "0", "0", "0">>, <<"9", "9", "9", "9", "9">> >>

\* The first k digits of pattern i, repeated as often as needed.
Pat(i, k) == [j \in 1..k |-> DigitPatterns[i][((j - 1) % Len(DigitPatterns[i])) + 1]]

\* Digit-only strings of every length from 0 to 2 * MaxHalf + 1.
DigitBodies ==
    {Pat(ij[1], a) \o Pat(ij[2], b) : ij \in {<<1, 2>>, <<3, 3>>, <<4, 4>>, <<3, 4>>},
                                      a \in 0..MaxHalf, b \in 0..(MaxHalf + 1)}

Junk == {"+", "-", "é", "€", " ", "X"}

Subst(s, pos, c) == [j \in 1..Len(s) |-> IF j = pos THEN c ELSE s[j]]

\* One character of a digit string replaced by another character.
JunkBodies ==
    UNION { {Subst(Pat(1, a) \o Pat(2, a + odd), pos, c) : pos \in 1..(a + a + odd), c \in Junk} :
              a \in 0..MaxHalf, odd \in 0..1 }

\* Each half led by a sign.
SignBodies ==
    {<<c>> \o Pat(1, a) \o <<c>> \o Pat(2, a) : a \in 0..(MaxHalf - 1), c \in {"+", "-"}}

FewBodies == {<<>>, <<"8", "9", "2", "4", "3", "7">>, Pat(1, 5) \o Pat(2, 5)}

Bodies == DigitBodies \cup JunkBodies \cup SignBodies

Letters == {GRID[i] : i \in 1..Len(GRID)}

FirstChars == Letters \cup {"I", "1", "é", "s", " ", "@"}

SecondChars == {"O", "V", "E", "I", "4", "é"}

FewSquares == {<<"S", "O">>, <<"n", " ", "s">>, <<"A", "B">>}

\* The strings of the repository's tests and documentation.
OSGBExamples ==
    { <<"S", "O">>,
      <<"S", "O", "8", "4">>,
      <<"S", "O", "8", "9", "4", "3">>,
      <<"S", "O", "8", "9", "2", "4", "3", "7">>,
      <<"S", "O", "8", "9", "2", "9", "4", "3", "7", "6">>,
      <<"S", "O", "8", "9", "2", "9", "1", "4", "3", "7", "6", "2">>,
      <<"n", "s", " ", "2", "4", " ", "6", "8">>,
      <<"N", "T", "6", "5", "2", "0">>,
      <<" ", "T", "L", "1", "2", "3", "4", "5", "6", " ">>,
      <<"T", "a", " ", "0", "3", "4", "4", " ", "3", "4">>,
      <<"T", "L", "1", "2", "3">>,
      <<"1", "2", "3">>,
      <<"T", "4", "5">>,
      <<"A", "B", "1", "2">>,
      <<"V", "V">>,
      <<"S", "O", "+", "1", "+", "2">>,
      <<"S", "O", "1", "é", "1">> }

OSIExamples ==
    { <<"O">>,
      <<"O", "8", "4">>,
      <<"O", "8", "9", "4", "3">>,
      <<"O", "8", "9", "2", "4", "3", "7">>,
      <<"O", "8", "9", "2", "9", "4", "3", "7", "6">>,
      <<"O", "8", "9", "2", "9", "1", "4", "3", "7", "6", "2">>,
      <<"s", " ", "2", "4", " ", "6", "8">>,
      <<"T", "6", "5", "2", "0">>,
      <<" ", "L", "1", "2", "3", "4", "5", "6", " ">>,
      <<"a", " ", "0", "3", "4", "4", " ", "3", "4">>,
      <<"O", "1", "5", "9", "0", "4", "3", "4", "6", "7", "1">>,
      <<"L", "1", "2", "3">>,
      <<"1", "2", "3">>,
      <<"O", "+", "1", "+", "2">> }

\* Strings with ASCII whitespace other than the space, and whitespace alone.
OSGBSpaced ==
    { <<"s", "\t", "o", " ", "8", "4", "\n">>,
      <<"S", "\r", "O", "\f", "8", "9", "4", "3">>,
      <<"N", "S", "2", "4", "6", "8">>,
      <<"\t">>, <<" ", "\n">>, <<" ", "s", "\t">> }

OSISpaced ==
    { <<"\t", "o", " ", "8", "4", "\n">>,
      <<"O", "\f", "8", "9", "\r", "4", "3">>,
      <<"S", "2", "4", "6", "8">>,
      <<"\t">>, <<" ", "\n">> }

OSGBStrings ==
    {<<a, b>> \o d : a \in FirstChars, b \in SecondChars, d \in FewBodies}
      \cup {<<a, b>> : a \in {"S", "H"}, b \in FirstChars}
      \cup {sq \o d : sq \in FewSquares, d \in Bodies}
      \cup {<<>>, <<" ">>, <<"S">>, <<"é">>}
      \cup OSGBExamples
      \cup OSGBSpaced

OSIStrings ==
    {<<a>> \o d : a \in FirstChars, d \in FewBodies}
      \cup {<<a>> \o d : a \in {"O", "a"}, d \in Bodies}
      \cup {<<>>, <<" ">>}
      \cup OSIExamples
      \cup OSISpaced

\* Bounded values Metres::precision is called with on its own, those of the
\* tests of metres.rs and point.rs among them.
MetresSamples == {0, 1, 9, 10, 123, 2000, 23480, 99999, 100000, 200250, 389291, 499999}

\* Four-character strings for the tetrad case: a square, two characters, and
\* a last character that is any capital letter, a small letter or a digit.
TetradSquares == {"L", "N", "V", "E", "S", "I"}

TetradDigits == {"0", "2", "3", "4", "9", "+"}

TetradStrings ==
    {<<l, d1, d2, c>> : l \in TetradSquares, d1 \in TetradDigits, d2 \in TetradDigits,
                        c \in {AsciiUpper[i] : i \in 1..26} \cup {"r", "5"}}
      \cup {<<"N">>, <<"N", "2", "4">>, <<"N", "é", "R">>, <<"N", "2", "4", "6", "8">>}

\* Columns and rows the letter lookups are called with: 0..MaxCoord.
MaxCoord == 5

----------------------------------------------------------------------------
(* The life of a reference: made by new or by parsing, then recalculated.  *)
(* The letter lookups of grid.rs are called on their own as well.          *)

Call(op, args) == [op |-> op, args |-> args]

Init ==
    /\ call = Call("none", <<>>)
    /\ ret = None
    /\ osgb = None
    /\ osi = None
    /\ origin = "start"

Held(r) == IF r.tag = "Ok" THEN Some(r.val) ELSE None

OSGBNew(e, n, p) ==
    /\ origin = "start"
    /\ \E checks \in BOOLEAN :
         /\ ret' = OSGB_new(e, n, p, checks)
         /\ osgb' = Held(ret')
    /\ call' = Call("OSGB::new", [eastings |-> e, northings |-> n, precision |-> p])
    /\ origin' = "new"
    /\ UNCHANGED osi

OSGBFromStr(s) ==
    /\ origin = "start"
    /\ ret' = OSGB_from_str(s)
    /\ osgb' = Held(ret')
    /\ call' = Call("OSGB::from_str", [s |-> s])
    /\ origin' = "from_str"
    /\ UNCHANGED osi

OSGBRecalculate(p) ==
    /\ osgb.tag = "Some"
    /\ ret' = Ok(OSGB_recalculate(osgb.val, p))
    /\ osgb' = Some(ret'.val)
    /\ call' = Call("OSGB::recalculate", [precision |-> p])
    /\ UNCHANGED <<osi, origin>>

OSINew(e, n, p) ==
    /\ origin = "start"
    /\ ret' = OSI_new(e, n, p)
    /\ osi' = Held(ret')
    /\ call' = Call("OSI::new", [eastings |-> e, northings |-> n, precision |-> p])
    /\ origin' = "new"
    /\ UNCHANGED osgb

OSIFromStr(s) ==
    /\ origin = "start"
    /\ ret' = OSI_from_str(s)
    /\ osi' = Held(ret')
    /\ call' = Call("OSI::from_str", [s |-> s])
    /\ origin' = "from_str"
    /\ UNCHANGED osgb

OSIRecalculate(p) ==
    /\ osi.tag = "Some"
    /\ ret' = Ok(OSI_recalculate(osi.val, p))
    /\ osi' = Some(ret'.val)
    /\ call' = Call("OSI::recalculate", [precision |-> p])
    /\ UNCHANGED <<osgb, origin>>

\* The accessors of the corners, the centre and the perimeter, called one after
\* the other on the reference held, as coordinates_are_correct does; each has
\* its own outcome.  checks: the build has overflow checks.
OSGBCorners(checks) ==
    /\ osgb.tag = "Some"
    /\ ret' = [tag |-> "Corners",
               sw |-> OSGB_sw(osgb.val, checks),
               nw |-> OSGB_nw(osgb.val, checks),
               ne |-> OSGB_ne(osgb.val, checks),
               se |-> OSGB_se(osgb.val, checks),
               centre |-> OSGB_centre(osgb.val, checks),
               perimeter |-> OSGB_perimeter(osgb.val, checks)]
    /\ call' = Call("OSGB::corners", [checks |-> checks])
    /\ UNCHANGED <<osgb, osi, origin>>

OSICorners(checks) ==
    /\ osi.tag = "Some"
    /\ ret' = [tag |-> "Corners",
               sw |-> OSI_sw(osi.val, checks),
               nw |-> OSI_nw(osi.val, checks),
               ne |-> OSI_ne(osi.val, checks),
               se |-> OSI_se(osi.val, checks),
               centre |-> OSI_centre(osi.val, checks),
               perimeter |-> OSI_perimeter(osi.val, checks)]
    /\ call' = Call("OSI::corners", [checks |-> checks])
    /\ UNCHANGED <<osgb, osi, origin>>

OSGBVisitStr(s) ==
    /\ origin = "start"
    /\ ret' = OSGBVisitor_visit_str(s)
    /\ osgb' = Held(ret')
    /\ call' = Call("OSGBVisitor::visit_str", [s |-> s])
    /\ origin' = "deserialize"
    /\ UNCHANGED osi

OSIVisitStr(s) ==
    /\ origin = "start"
    /\ ret' = OSIVisitor_visit_str(s)
    /\ osi' = Held(ret')
    /\ call' = Call("OSIVisitor::visit_str", [s |-> s])
    /\ origin' = "deserialize"
    /\ UNCHANGED osgb

\* Point::from_str as built with the feature tetrads.
PointFromStrTetrads(s) ==
    /\ origin = "start"
    /\ ret' = Point_from_str_tetrads(s)
    /\ call' = Call("Point::from_str", [s |-> s, feature |-> "tetrads"])
    /\ origin' = "tetrads"
    /\ UNCHANGED <<osgb, osi>>

MetresPrecision(m, p) ==
    /\ origin = "start"
    /\ ret' = Ok(Metres_precision(m, p))
    /\ call' = Call("Metres::precision", [self |-> m, precision |-> p])
    /\ origin' = "metres"
    /\ UNCHANGED <<osgb, osi>>

CoordsToSquare(column, row) ==
    /\ origin = "start"
    /\ ret' = coords_to_square(column, row)
    /\ call' = Call("coords_to_square", [column |-> column, row |-> row])
    /\ origin' = "lookup"
    /\ UNCHANGED <<osgb, osi>>

SquareToCoords(square) ==
    /\ origin = "start"
    /\ ret' = square_to_coords(square)
    /\ call' = Call("square_to_coords", [square |-> square])
    /\ origin' = "lookup"
    /\ UNCHANGED <<osgb, osi>>

\* Display of the reference held.
OSGBFmt ==
    /\ osgb.tag = "Some"
    /\ ret' = OSGB_fmt(osgb.val)
    /\ call' = Call("OSGB::fmt", <<>>)
    /\ UNCHANGED <<osgb, osi, origin>>

OSIFmt ==
    /\ osi.tag = "Some"
    /\ ret' = OSI_fmt(osi.val)
    /\ call' = Call("OSI::fmt", <<>>)
    /\ UNCHANGED <<osgb, osi, origin>>

\* The strings of parse_valid_digits and reject_invalid_digits.
DigitsExamples ==
    { <<>>,
      <<"1", "2">>,
      <<"1", "2", "3", "4">>,
      <<"1", "2", "3", "4", "5", "6">>,
      <<"1", "2", "3", "4", "5", "6", "7", "8">>,
      <<"0", "1", "2", "3", "4", "5", "6", "7", "8", "9">>,
      <<"1", "2", "3">>,
      <<"a", "b">> }

\* The digit parts utils::digits is called with on its own.
DigitsStrings == Bodies \cup DigitsExamples

Digits(s) ==
    /\ origin = "start"
    /\ ret' = digits(s)
    /\ call' = Call("digits", [s |-> s])
    /\ origin' = "digits"
    /\ UNCHANGED <<osgb, osi>>

\* Metres::padded of a bounded value; ret holds the String returned.
MetresPadded(m, p) ==
    /\ origin = "start"
    /\ ret' = Ok(Metres_padded(m, p))
    /\ call' = Call("Metres::padded", [self |-> m, precision |-> p])
    /\ origin' = "metres"
    /\ UNCHANGED <<osgb, osi>>

\* The strings of trim_strings, and references written with separators.
TrimExamples ==
    { <<"s", "o", " ", "1", "4", " ", "5">>,
      <<"S", "o", " ", "2", "2", "2">>,
      <<" ", "@", " ", "@", " ">>,
      <<"S", "O", "-", "1", "4", "-", "5", "0">>,
      <<"t", "l", "@", "1", "2", ".", "3", "4">>,
      <<"n", "_", "s", "é">> }

TrimStrings == TrimExamples \cup OSGBExamples \cup OSGBSpaced \cup JunkBodies

\* utils::trim_string on its own; ret holds the String returned.
TrimString(s) ==
    /\ origin = "start"
    /\ ret' = Ok(trim_string(s))
    /\ call' = Call("trim_string", [s |-> s])
    /\ origin' = "trim"
    /\ UNCHANGED <<osgb, osi>>

\* A reference is made once, from the start; the guards of the constructors are
\* stated here as well, ahead of the choice of their arguments.
Next ==
    \/ origin = "start" /\ \E e \in Coords, n \in Coords, p \in Precision : OSGBNew(e, n, p)
    \/ origin = "start" /\ \E s \in OSGBStrings : OSGBFromStr(s)
    \/ \E p \in Precision : OSGBRecalculate(p)
    \/ origin = "start" /\ \E e \in OSICoords, n \in OSICoords, p \in Precision : OSINew(e, n, p)
    \/ origin = "start" /\ \E s \in OSIStrings : OSIFromStr(s)
    \/ \E p \in Precision : OSIRecalculate(p)
    \/ \E checks \in BOOLEAN : OSGBCorners(checks)
    \/ \E checks \in BOOLEAN : OSICorners(checks)
    \/ origin = "start" /\ \E s \in OSGBExamples \cup OSGBSpaced : OSGBVisitStr(s)
    \/ origin = "start" /\ \E s \in OSIExamples \cup OSISpaced : OSIVisitStr(s)
    \/ origin = "start" /\ \E s \in TetradStrings : PointFromStrTetrads(s)
    \/ \E m \in MetresSamples, p \in Precision : MetresPrecision(m, p)
    \/ \E column \in 0..MaxCoord, row \in 0..MaxCoord : CoordsToSquare(column, row)
    \/ \E square \in FirstChars : SquareToCoords(square)
    \/ OSGBFmt
    \/ OSIFmt
    \/ origin = "start" /\ \E s \in DigitsStrings : Digits(s)
    \/ \E m \in MetresSamples, p \in Precision : MetresPadded(m, p)
    \/ origin = "start" /\ \E s \in TrimStrings : TrimString(s)

Spec == Init /\ [][Next]_vars

----------------------------------------------------------------------------
(* Properties *)

Whitelist == {"S", "T", "N", "O", "H"}

GridLetters == { "A", "B", "C", "D", "E", "F", "G", "H", "J", "K", "L", "M", "N",
                 "O", "P", "Q", "R", "S", "T", "U", "V", "W", "X", "Y", "Z" }

LegalDigitCounts == {0, 2, 4, 6, 8, 10}

IsParse == call.op \in {"OSGB::from_str", "OSI::from_str"}

\* The string of a parse call as the parser sees it, the number of square
\* letters its grid has, and the part after them.
Trimmed == trim_string(call.args.s)

NLetters == IF call.op = "OSGB::from_str" THEN 2 ELSE 1

LettersValid ==
    /\ Len(Trimmed) >= NLetters
    /\ \A i \in 1..NLetters : Trimmed[i] \in GridLetters

DigitPart == SubSeq(Trimmed, NLetters + 1, Len(Trimmed))

DigitsOnly(s) == \A i \in 1..Len(s) : s[i] \in {DecimalDigits[d] : d \in 1..10}

\* C1: a reference made by OSGB::new or OSI::new formats to a string that
\* parses, and the parsed reference formats to the same string.
C1_StringRoundTrip ==
    /\ (call.op = "OSGB::new" /\ ret.tag = "Ok") =>
         LET f == OSGB_fmt(ret.val)
         IN  /\ f.tag = "Ok"
             /\ OSGB_from_str(f.val).tag = "Ok"
             /\ OSGB_fmt(OSGB_from_str(f.val).val) = f
    /\ (call.op = "OSI::new" /\ ret.tag = "Ok") =>
         LET f == OSI_fmt(ret.val)
         IN  /\ f.tag = "Ok"
             /\ OSI_from_str(f.val).tag = "Ok"
             /\ OSI_fmt(OSI_from_str(f.val).val) = f

C1_Witness ==
    /\ call.op = "OSGB::new"
    /\ call.args.precision = "_100M"
    /\ ret.tag = "Ok"
    /\ OSGB_fmt(ret.val) = Ok(<<"S", "F", "0", "0", "0", "8", "9", "2">>)

\* C2: a reference made by OSGB::new or OSI::new, formatted and parsed, is the
\* same value: super-square, eastings, northings and precision.
C2_ValueRoundTrip ==
    /\ (call.op = "OSGB::new" /\ ret.tag = "Ok") =>
         /\ OSGB_fmt(ret.val).tag = "Ok"
         /\ OSGB_from_str(OSGB_fmt(ret.val).val) = Ok(ret.val)
    /\ (call.op = "OSI::new" /\ ret.tag = "Ok") =>
         /\ OSI_fmt(ret.val).tag = "Ok"
         /\ OSI_from_str(OSI_fmt(ret.val).val) = Ok(ret.val)

C2_Witness ==
    /\ call.op = "OSI::new"
    /\ call.args.eastings = U32(389291)
    /\ call.args.precision = "_1Km"
    /\ ret.tag = "Ok"
    /\ OSI_fmt(ret.val) = Ok(<<"T", "8", "9", "0", "0">>)
    /\ OSI_from_str(<<"T", "8", "9", "0", "0">>) = ret

\* The super-square of the arguments of OSGB::new, computed without wrapping:
\* column (e + 1,000,000) / 500,000 and row (n + 500,000) / 500,000.
SuperColumn == U32Div(call.args.eastings, _500KM) + 2

SuperRow == U32Div(call.args.northings, _500KM) + 1

\* C3: OSGB::new fails whenever the super-square of its arguments is a letter
\* outside S, T, N, O, H, and no reference it returns has such a letter.
C3_WhitelistOnNew ==
    call.op = "OSGB::new" =>
      /\ (/\ SuperColumn < 5
          /\ SuperRow < 5
          /\ GRID[SuperColumn + (5 * SuperRow) + 1] \notin Whitelist) => ret.tag = "Err"
      /\ ret.tag = "Ok" =>
           \E l \in Whitelist :
              coords_to_square(ret.val.square_500k_east, ret.val.square_500k_north) = Ok(l)

C3_Witness ==
    /\ call.op = "OSGB::new"
    /\ SuperColumn = 3
    /\ SuperRow = 3
    /\ ret = Err(ParseError("J is not a supported 500km square."))

\* C4: every OSGB reference that came from a parse has a super-square letter
\* in S, T, N, O, H, and a string that starts with another grid letter is
\* rejected.
C4_WhitelistOnParse ==
    /\ (origin = "from_str" /\ osgb.tag = "Some") =>
         \E l \in Whitelist :
            coords_to_square(osgb.val.square_500k_east, osgb.val.square_500k_north) = Ok(l)
    /\ (/\ call.op = "OSGB::from_str"
        /\ Trimmed # <<>>
        /\ Head(Trimmed) \in GridLetters \ Whitelist) => ret.tag = "Err"

\* C5: OSGB::new returns Ok or Err for every u32 pair, and arguments whose
\* offset sum is above 2^32 - 1 are out of bounds.
C5_NewTotal ==
    call.op = "OSGB::new" =>
      /\ ret.tag \in {"Ok", "Err"}
      /\ (\/ U32Lt([hi |-> 4293, lo |-> 967295], call.args.eastings)
          \/ U32Lt([hi |-> 4294, lo |-> 467295], call.args.northings)) =>
           ret = Err(OutOfBounds)

\* C6: parsing returns a reference or an error for every string.
C6_ParseTotal == IsParse => ret.tag \in {"Ok", "Err"}

\* C7: with valid square letters and a digit-only rest, parsing succeeds iff
\* the number of digits is 0, 2, 4, 6, 8 or 10, and fails otherwise with the
\* ParseError that names the number and the supported values.
C7_DigitCount ==
    (IsParse /\ LettersValid /\ DigitsOnly(DigitPart)) =>
      IF Len(DigitPart) \in LegalDigitCounts
        THEN ret.tag = "Ok"
        ELSE ret = Err(ParseError(ToString(Len(DigitPart))
               \o " is not a valid number of digits. Supported values: 0, 2, 4, 6, 8, 10."))

C7_Witness ==
    /\ call.op = "OSGB::from_str"
    /\ call.args.s = <<"T", "L", "1", "2", "3">>
    /\ ret = Err(ParseError(
         "3 is not a valid number of digits. Supported values: 0, 2, 4, 6, 8, 10."))

\* C8: with valid square letters, a rest of legal length that holds a character
\* other than 0-9 does not parse to a reference.
C8_DigitContent ==
    (/\ IsParse
     /\ LettersValid
     /\ str_len(DigitPart) \in LegalDigitCounts
     /\ ~DigitsOnly(DigitPart)) => ret.tag # "Ok"

C10_NewSouthWest ==
    (call.op = "OSGB::new" /\ ret.tag = "Ok") =>
      LET e == U32Int(call.args.eastings)
          n == U32Int(call.args.northings)
          m == Precision_metres(call.args.precision)
      IN  /\ ret.val.point.precision = call.args.precision
          /\ \A checks \in BOOLEAN :
               OSGB_sw(ret.val, checks) = Ok(<<U32(e - (e % m)), U32(n - (n % m))>>)

C10_Witness ==
    /\ call.op = "OSGB::new"
    /\ call.args.precision = "_1Km"
    /\ ret.tag = "Ok"
    /\ OSGB_sw(ret.val, TRUE) = Ok(<<U32(889000), U32(889000)>>)

\* x - (x mod m) of a raw u32, for a divisor m of 10^6.
U32Floor(x, m) == [hi |-> x.hi, lo |-> x.lo - (x.lo % m)]

Finer(p, q) == PrecisionOrd(p) > PrecisionOrd(q)

\* C11: recalculating a reference to a precision finer than its own returns a
\* reference equal to it: same super-square, coordinates, precision and string.
C11_NoFinerRecalculate ==
    [][/\ (/\ call'.op = "OSGB::recalculate"
           /\ osgb.tag = "Some"
           /\ Finer(call'.args.precision, osgb.val.point.precision)) =>
            /\ ret' = Ok(osgb.val)
            /\ osgb' = osgb
            /\ OSGB_fmt(ret'.val) = OSGB_fmt(osgb.val)
       /\ (/\ call'.op = "OSI::recalculate"
           /\ osi.tag = "Some"
           /\ Finer(call'.args.precision, osi.val.point.precision)) =>
            /\ ret' = Ok(osi.val)
            /\ osi' = osi
            /\ OSI_fmt(ret'.val) = OSI_fmt(osi.val)]_vars

C11_Witness ==
    /\ call.op = "OSGB::recalculate"
    /\ call.args.precision = "_1M"
    /\ origin = "from_str"
    /\ ret.val.point.precision = "_10Km"
    /\ ret = Ok(osgb.val)
    /\ OSGB_fmt(ret.val) = Ok(<<"S", "O", "8", "4">>)

\* C12: recalculating a reference r to a precision p not finer than its own
\* gives a reference of precision p, with the super-square of r, whose
\* south-west corner is that of r with each coordinate cut down to a multiple
\* of p.metres().
C12_CoarserRecalculate ==
    [][/\ (/\ call'.op = "OSGB::recalculate"
           /\ osgb.tag = "Some"
           /\ ~Finer(call'.args.precision, osgb.val.point.precision)) =>
            LET p == call'.args.precision
                m == Precision_metres(p)
            IN  /\ ret'.tag = "Ok"
                /\ ret'.val.point.precision = p
                /\ ret'.val.square_500k_east = osgb.val.square_500k_east
                /\ ret'.val.square_500k_north = osgb.val.square_500k_north
                /\ \A checks \in BOOLEAN :
                     LET sw == OSGB_sw(osgb.val, checks)
                     IN  sw.tag = "Ok" =>
                           OSGB_sw(ret'.val, checks)
                             = Ok(<<U32Floor(sw.val[1], m), U32Floor(sw.val[2], m)>>)
       /\ (/\ call'.op = "OSI::recalculate"
           /\ osi.tag = "Some"
           /\ ~Finer(call'.args.precision, osi.val.point.precision)) =>
            LET p == call'.args.precision
                m == Precision_metres(p)
            IN  /\ ret'.tag = "Ok"
                /\ ret'.val.point.precision = p
                /\ \A checks \in BOOLEAN :
                     LET sw == OSI_sw(osi.val, checks)
                     IN  OSI_sw(ret'.val, checks)
                           = Ok(<<U32Floor(sw.val[1], m), U32Floor(sw.val[2], m)>>)]_vars

\* x + b without wrapping, for a raw u32 x and an integer b.
Plus(x, b) == [hi |-> x.hi + ((x.lo + b) \div Limb), lo |-> (x.lo + b) % Limb]

\* Twice a coordinate of the centre, and twice a corner coordinate plus m.
TwiceCentre(c) == [hi |-> (2 * c.hi) + (((2 * c.lo) + c.halves) \div Limb),
                   lo |-> ((2 * c.lo) + c.halves) % Limb]

TwicePlus(x, m) == [hi |-> (2 * x.hi) + (((2 * x.lo) + m) \div Limb),
                    lo |-> ((2 * x.lo) + m) % Limb]

IsCorners == call.op \in {"OSGB::corners", "OSI::corners"}

CellMetres == IF call.op = "OSGB::corners" THEN OSGB_metres(osgb.val) ELSE OSI_metres(osi.val)

\* C13: for a reference whose south-west corner is (E, N) and whose cell is m
\* metres wide, nw is (E, N + m), ne is (E + m, N + m), se is (E + m, N), the
\* centre is (E + m/2, N + m/2) and the perimeter is made of the four corners
\* in the order SW, NW, NE, SE.
C13_CellGeometry ==
    (IsCorners /\ ret.sw.tag = "Ok") =>
      LET E == ret.sw.val[1]
          N == ret.sw.val[2]
          m == CellMetres
      IN  /\ ret.nw = Ok(<<E, Plus(N, m)>>)
          /\ ret.ne = Ok(<<Plus(E, m), Plus(N, m)>>)
          /\ ret.se = Ok(<<Plus(E, m), N>>)
          /\ ret.centre.tag = "Ok"
          /\ TwiceCentre(ret.centre.val[1]) = TwicePlus(E, m)
          /\ TwiceCentre(ret.centre.val[2]) = TwicePlus(N, m)
          /\ ret.perimeter = Ok(<<ret.sw.val, ret.nw.val, ret.ne.val, ret.se.val>>)

\* A string with every ASCII whitespace character (space, tab, line feed, form
\* feed, carriage return) taken out and every ASCII letter in upper case.
LowerUpper == { <<"a", "A">>, <<"b", "B">>, <<"c", "C">>, <<"d", "D">>, <<"e", "E">>,
                <<"f", "F">>, <<"g", "G">>, <<"h", "H">>, <<"i", "I">>, <<"j", "J">>,
                <<"k", "K">>, <<"l", "L">>, <<"m", "M">>, <<"n", "N">>, <<"o", "O">>,
                <<"p", "P">>, <<"q", "Q">>, <<"r", "R">>, <<"s", "S">>, <<"t", "T">>,
                <<"u", "U">>, <<"v", "V">>, <<"w", "W">>, <<"x", "X">>, <<"y", "Y">>,
                <<"z", "Z">> }

Upper(c) == IF \E lu \in LowerUpper : lu[1] = c
              THEN (CHOOSE lu \in LowerUpper : lu[1] = c)[2]
              ELSE c

RECURSIVE Canon(_)
Canon(s) ==
    IF s = <<>> THEN <<>>
    ELSE IF Head(s) \in {" ", "\t", "\n", "\f", "\r"} THEN Canon(Tail(s))
    ELSE <<Upper(Head(s))>> \o Canon(Tail(s))

\* C14: the result of parsing a string is the result of parsing the string
\* with all its ASCII whitespace removed and its ASCII letters in upper case,
\* so two strings that agree after that change parse to the same reference or
\* the same error.
C14_WhitespaceAndCase ==
    /\ call.op = "OSGB::from_str" => ret = OSGB_from_str(Canon(call.args.s))
    /\ call.op = "OSI::from_str" => ret = OSI_from_str(Canon(call.args.s))

C14_Witness ==
    /\ call.op = "OSGB::from_str"
    /\ call.args.s = <<"n", "s", " ", "2", "4", " ", "6", "8">>
    /\ ret.tag = "Ok"
    /\ ret = OSGB_from_str(<<"N", "S", "2", "4", "6", "8">>)

EmptyError == Err(ParseError("String can not be empty."))

\* C15: a string with nothing left once its whitespace is removed fails to
\* parse, as OSGB and as OSI, with ParseError("String can not be empty."), and
\* so does an OSGB string made of one grid letter only.
C15_EmptyInput ==
    /\ (IsParse /\ Canon(call.args.s) = <<>>) => ret = EmptyError
    /\ (/\ call.op = "OSGB::from_str"
        /\ Len(Canon(call.args.s)) = 1
        /\ Canon(call.args.s)[1] \in GridLetters) => ret = EmptyError

C15_Witness ==
    /\ call.op = "OSGB::from_str"
    /\ call.args.s = <<" ", "s", "\t">>
    /\ ret = EmptyError

\* C16: OSI::new(e, n, p) returns a reference iff e < 500,000 and
\* n < 500,000, and Error::OutOfBounds otherwise; the reference is in the
\* 100 km square of its arguments, whichever of the 25 letters that is.
C16_OSIDomain ==
    call.op = "OSI::new" =>
      LET e == call.args.eastings
          n == call.args.northings
      IN  IF U32Lt(e, U32(500000)) /\ U32Lt(n, U32(500000))
            THEN /\ ret.tag = "Ok"
                 /\ OSI_fmt(ret.val).tag = "Ok"
                 /\ Head(OSI_fmt(ret.val).val)
                      = GRID[(U32Int(e) \div 100000) + (5 * (U32Int(n) \div 100000)) + 1]
                 /\ Head(OSI_fmt(ret.val).val) \in GridLetters
            ELSE ret = Err(OutOfBounds)

C16_Witness ==
    /\ call.op = "OSI::new"
    /\ call.args = [eastings |-> U32(389200), northings |-> U32(243700), precision |-> "_100M"]
    /\ ret.tag = "Ok"
    /\ OSI_fmt(ret.val) = Ok(<<"O", "8", "9", "2", "4", "3", "7">>)

\* The values 23480 is cut down to, from the test recalculates_precision.
Cut23480 ==
    [p \in Precision |->
       CASE p = "_1M" -> 23480 [] p = "_10M" -> 23480 [] p = "_100M" -> 23400
         [] p = "_1Km" -> 23000 [] p = "_10Km" -> 20000 [] p = "_100Km" -> 0]

\* C17: truncating x in [0, 500000) to a precision of m metres gives
\* x - (x mod m), which is at most x, is in [0, 500000) and is left as it is
\* by truncating it again.
C17_Truncation ==
    call.op = "Metres::precision" =>
      LET x == call.args.self
          p == call.args.precision
          m == Precision_metres(p)
      IN  /\ ret.tag = "Ok"
          /\ ret.val = x - (x % m)
          /\ ret.val <= x
          /\ ret.val \in 0..499999
          /\ Metres_precision(ret.val, p) = ret.val
          /\ x = 23480 => ret.val = Cut23480[p]

C17_Witness ==
    /\ call.op = "Metres::precision"
    /\ call.args = [self |-> 23480, precision |-> "_1Km"]
    /\ ret = Ok(23000)

\* C18: when the string given to a deserializer fails to parse, the error of
\* the deserializer has the message of the parse error, so strings whose parse
\* errors have different messages get different deserialization errors.
C18_SerdeMessage ==
    /\ (call.op = "OSGBVisitor::visit_str" /\ OSGB_from_str(call.args.s).tag = "Err") =>
         /\ ret = Err(de_Error_custom(OSGB_from_str(call.args.s).err.msg))
         /\ \A s \in OSGBExamples :
              (/\ OSGB_from_str(s).tag = "Err"
               /\ OSGB_from_str(s).err.msg # OSGB_from_str(call.args.s).err.msg) =>
                OSGBVisitor_visit_str(s) # ret
    /\ (call.op = "OSIVisitor::visit_str" /\ OSI_from_str(call.args.s).tag = "Err") =>
         /\ ret = Err(de_Error_custom(OSI_from_str(call.args.s).err.msg))
         /\ \A s \in OSIExamples :
              (/\ OSI_from_str(s).tag = "Err"
               /\ OSI_from_str(s).err.msg # OSI_from_str(call.args.s).err.msg) =>
                OSIVisitor_visit_str(s) # ret

\* The tetrad letters, A-Z without O, run up the columns from the south-west:
\* the k-th letter (from 0) is in column k / 5 and row k mod 5.
TetradLetters == << "A", "B", "C", "D", "E", "F", "G", "H", "I", "J", "K", "L", "M",
                    "N", "P", "Q", "R", "S", "T", "U", "V", "W", "X", "Y", "Z" >>

TetradIndex(c) == (CHOOSE k \in 1..25 : TetradLetters[k] = c) - 1

IsTetradString(s) ==
    /\ Len(s) = 4
    /\ s[1] \in GridLetters
    /\ is_digit(s[2])
    /\ is_digit(s[3])
    /\ \E k \in 1..25 : TetradLetters[k] = s[4]

\* C19: with the feature tetrads, a grid letter L, two digits d1 d2 and a
\* tetrad letter T parse to eastings col(L) * 100000 + d1 * 10000 + tcol(T) * 2000
\* and northings row(L) * 100000 + d2 * 10000 + trow(T) * 2000 at the 2 km
\* precision, and the point formats back to the same four characters.
C19_TetradRoundTrip ==
    (call.op = "Point::from_str" /\ IsTetradString(call.args.s)) =>
      LET s == call.args.s
          L == square_to_coords(s[1]).val
          k == TetradIndex(s[4])
      IN  /\ ret = Ok([eastings  |-> (L[1] * 100000) + (to_digit(s[2]) * 10000)
                                       + ((k \div 5) * 2000),
                       northings |-> (L[2] * 100000) + (to_digit(s[3]) * 10000)
                                       + ((k % 5) * 2000),
                       precision |-> "_2Km"])
          /\ Point_fmt_tetrads(ret.val) = Ok(s)

C19_Witness ==
    /\ call.op = "Point::from_str"
    /\ call.args.s = <<"N", "2", "4", "R">>
    /\ ret = Ok([eastings |-> 226000, northings |-> 242000, precision |-> "_2Km"])
    /\ Point_fmt_tetrads(ret.val) = Ok(<<"N", "2", "4", "R">>)

\* The point of the reference held, if one is held.
HeldPoints ==
    (IF osgb.tag = "Some" THEN {osgb.val.point} ELSE {})
      \cup (IF osi.tag = "Some" THEN {osi.val.point} ELSE {})

\* C20: whatever calls of new, parse and recalculate made it, a reference has
\* eastings and northings within its square in [0, 500000), both multiples
\* of the metres of its precision.
C20_TruncationInvariant ==
    \A point \in HeldPoints :
       /\ point.eastings \in 0..499999
       /\ point.northings \in 0..499999
       /\ point.eastings % Precision_metres(point.precision) = 0
       /\ point.northings % Precision_metres(point.precision) = 0

C20_Witness ==
    /\ call.op = "OSGB::recalculate"
    /\ origin = "new"
    /\ osgb.tag = "Some"
    /\ osgb.val.point = [eastings |-> 380000, northings |-> 490000, precision |-> "_10Km"]

\* C21: every OSGB reference that came from a successful parse has
\* square_500k_east * 500,000 >= 1,000,000 and square_500k_north * 500,000 >=
\* 500,000, so that sw, nw, ne, se and centre return coordinates on it and
\* never underflow.
C21_CornersTotal ==
    (origin = "from_str" /\ osgb.tag = "Some") =>
      /\ osgb.val.square_500k_east * _500KM >= OFFSET_EAST
      /\ osgb.val.square_500k_north * _500KM >= OFFSET_NORTH
      /\ call.op = "OSGB::corners" =>
           /\ ret.sw.tag = "Ok"
           /\ ret.nw.tag = "Ok"
           /\ ret.ne.tag = "Ok"
           /\ ret.se.tag = "Ok"
           /\ ret.centre.tag = "Ok"

\* C22: for every OSGB or OSI reference held, whether it came from new, from a
\* parse or from recalculate, the letter lookups of Display succeed (the
\* square letter at eastings / 100,000 and northings / 100,000, and for OSGB
\* the super-square letter at the stored column and row), and formatting
\* returns a string.
C22_FormatTotal ==
    /\ osgb.tag = "Some" =>
         /\ coords_to_square(osgb.val.square_500k_east, osgb.val.square_500k_north).tag = "Ok"
         /\ coords_to_square(osgb.val.point.eastings \div _100KM,
                             osgb.val.point.northings \div _100KM).tag = "Ok"
    /\ osi.tag = "Some" =>
         coords_to_square(osi.val.point.eastings \div _100KM,
                          osi.val.point.northings \div _100KM).tag = "Ok"
    /\ call.op \in {"OSGB::fmt", "OSI::fmt"} => ret.tag = "Ok"

C22_Witness ==
    /\ call.op = "OSI::fmt"
    /\ origin = "new"
    /\ osi.val.point.eastings \div _100KM = 4
    /\ osi.val.point.northings \div _100KM = 4
    /\ osi.val.point.precision = "_10Km"
    /\ ret = Ok(<<"E", "9", "9">>)

\* C23: OSGB::new returns OutOfBounds exactly when the super-square column or
\* row of its arguments is 5 or more (eastings >= 1,500,000 or northings >=
\* 2,000,000), ParseError("<letter> is not a supported 500km square.") exactly
\* when the super-square is in the grid and its letter is not S, T, N, O or H,
\* and Ok otherwise: iff (e < 1,000,000 and n < 1,000,000) or (e < 500,000 and
\* 1,000,000 <= n < 1,500,000).
C23_NewErrorKind ==
    call.op = "OSGB::new" =>
      LET e == call.args.eastings
          n == call.args.northings
      IN  /\ IF SuperColumn >= 5 \/ SuperRow >= 5
               THEN ret = Err(OutOfBounds)
             ELSE IF GRID[SuperColumn + (5 * SuperRow) + 1] \notin Whitelist
               THEN ret = Err(ParseError(GRID[SuperColumn + (5 * SuperRow) + 1]
                            \o " is not a supported 500km square."))
             ELSE ret.tag = "Ok"
          /\ (SuperColumn >= 5 \/ SuperRow >= 5)
               <=> (~U32Lt(e, U32(3 * _500KM)) \/ ~U32Lt(n, U32(4 * _500KM)))
          /\ ret.tag = "Ok"
               <=> \/ U32Lt(e, U32(2 * _500KM)) /\ U32Lt(n, U32(2 * _500KM))
                   \/ /\ U32Lt(e, U32(_500KM))
                      /\ ~U32Lt(n, U32(2 * _500KM))
                      /\ U32Lt(n, U32(3 * _500KM))

RECURSIVE DecimalValue(_)
\* The number a string of decimal digits writes; 0 for the empty string.
DecimalValue(s) ==
    IF s = <<>> THEN 0
    ELSE (10 * DecimalValue(SubSeq(s, 1, Len(s) - 1)))
           + (CHOOSE d \in 0..9 : DecimalDigits[d + 1] = s[Len(s)])

RECURSIVE TenTo(_)
TenTo(k) == IF k = 0 THEN 1 ELSE 10 * TenTo(k - 1)

\* C24: for a string of 2k decimal digits, k in 0..5, digits returns the
\* precision that has k digits per half (0: 100 km, 1: 10 km, 2: 1 km, 3: 100 m,
\* 4: 10 m, 5: 1 m) and the offsets (value of the first k digits, value of the
\* last k digits), each times the metres of that precision, 10^(5-k); each
\* offset is below 100,000, the empty string gives (0, 0, 100 km), "123456"
\* gives (12300, 45600, 100 m) and "0123456789" gives (1234, 56789, 1 m).
C24_DigitSplitting ==
    (/\ call.op = "digits"
     /\ DigitsOnly(call.args.s)
     /\ Len(call.args.s) \in LegalDigitCounts) =>
      LET s == call.args.s
          k == Len(s) \div 2
      IN  /\ ret.tag = "Ok"
          /\ ret.val[3] = Precisions[k + 1]
          /\ Precision_digits(ret.val[3]) = 2 * k
          /\ Precision_metres(ret.val[3]) = TenTo(5 - k)
          /\ ret.val[1] = DecimalValue(SubSeq(s, 1, k)) * TenTo(5 - k)
          /\ ret.val[2] = DecimalValue(SubSeq(s, k + 1, 2 * k)) * TenTo(5 - k)
          /\ ret.val[1] < 100000
          /\ ret.val[2] < 100000
          /\ s = <<>> => ret = Ok(<<0, 0, "_100Km">>)
          /\ s = <<"1", "2", "3", "4", "5", "6">> => ret = Ok(<<12300, 45600, "_100M">>)
          /\ s = <<"0", "1", "2", "3", "4", "5", "6", "7", "8", "9">>
               => ret = Ok(<<1234, 56789, "_1M">>)

C24_Witness ==
    /\ call.op = "digits"
    /\ call.args.s = <<"0", "1", "2", "3", "4", "5", "6", "7", "8", "9">>
    /\ ret = Ok(<<1234, 56789, "_1M">>)

\* The digits 200250 renders as, from 100 km down to 1 m.
Padded200250 == << <<>>, <<"0">>, <<"0", "0">>, <<"0", "0", "2">>,
                   <<"0", "0", "2", "5">>, <<"0", "0", "2", "5", "0">> >>

\* C25: for a bounded value x and a precision p, Metres::padded returns the
\* empty string when p is 100 km, and otherwise exactly p.digits()/2 decimal
\* digits, never more, that write (x mod 100,000) / p.metres() with zeros on
\* the left; 200250 gives "", "0", "00", "002", "0025", "00250" from 100 km
\* down to 1 m.
C25_PaddedDigits ==
    call.op = "Metres::padded" =>
      LET x == call.args.self
          p == call.args.precision
          k == PrecisionOrd(p) - 1
      IN  /\ ret.tag = "Ok"
          /\ p = "_100Km" => ret.val = <<>>
          /\ Precision_digits(p) = 2 * k
          /\ Len(ret.val) = k
          /\ DigitsOnly(ret.val)
          /\ DecimalValue(ret.val) = (x % 100000) \div TenTo(5 - k)
          /\ DecimalValue(ret.val) = (x % 100000) \div Precision_metres(p)
          /\ x = 200250 => ret.val = Padded200250[k + 1]

C25_Witness ==
    /\ call.op = "Metres::padded"
    /\ call.args.self = 200250
    /\ call.args.precision = "_10M"
    /\ ret = Ok(<<"0", "0", "2", "5">>)

LetterError(c) == Err(ParseError(c \o " is not a valid grid square."))

\* An error of a parse that comes from the digit part: neither the error of a
\* letter lookup, nor that of the empty string, nor OutOfBounds.
IsDigitError ==
    /\ ret.tag = "Err"
    /\ ret.err.variant # "OutOfBounds"
    /\ ret # Err(ParseError("String can not be empty."))
    /\ \A i \in 1..Len(Trimmed) : ret # LetterError(Trimmed[i])

\* C26: the letters are checked before the digits.  For OSGB, a string (as
\* trimmed and upper-cased for parsing) whose first character is not one of
\* the 25 grid letters fails with ParseError("<c> is not a valid grid
\* square.") that names the first character, and one whose first character is
\* a grid letter and whose second is not fails with the same message naming
\* the second, whatever follows: "123" names 1 and "T45" names 4.  For OSI
\* the same holds of the first character alone.  An error of the digit count
\* or of the digit content is returned only when the letters are valid.
C26_LettersBeforeDigits ==
    IsParse =>
      /\ (Trimmed # <<>> /\ Trimmed[1] \notin GridLetters) => ret = LetterError(Trimmed[1])
      /\ (/\ call.op = "OSGB::from_str"
          /\ Len(Trimmed) >= 2
          /\ Trimmed[1] \in GridLetters
          /\ Trimmed[2] \notin GridLetters) => ret = LetterError(Trimmed[2])
      /\ IsDigitError => LettersValid
      /\ call.args.s = <<"1", "2", "3">> => ret = LetterError("1")
      /\ (call.op = "OSGB::from_str" /\ call.args.s = <<"T", "4", "5">>)
           => ret = LetterError("4")

C26_Witness ==
    /\ call.op = "OSGB::from_str"
    /\ call.args.s = <<"T", "4", "5">>
    /\ ret = Err(ParseError("4 is not a valid grid square."))

\* The capital ASCII letters and the decimal digits.
UpperAlphanumeric == {AsciiUpper[i] : i \in 1..26} \cup {DecimalDigits[d] : d \in 1..10}

\* C27: trim_string removes every character that is not alphanumeric and
\* upper-cases the rest: each character of its output is an ASCII letter, in
\* upper case, or a digit, and a separator such as - or @ is not in it.
C27_TrimAlphanumeric ==
    call.op = "trim_string" =>
      /\ ret.tag = "Ok"
      /\ \A i \in 1..Len(ret.val) :
           /\ ret.val[i] \in UpperAlphanumeric
           /\ ret.val[i] \notin {"-", "@"}

\* C28: no parse returns OutOfBounds.  For a string whose letters are grid
\* letters and whose digit part passes utils::digits, the base of the 100 km
\* square, column * 100,000 and row * 100,000, plus the offset of the digits is
\* below 500,000 on both axes, and the parse returns the point with these
\* coordinates; with decimal digits of a legal count the parse succeeds.
C28_NoOutOfBounds ==
    IsParse =>
      /\ ret # Err(OutOfBounds)
      /\ (LettersValid /\ digits(DigitPart).tag = "Ok") =>
           LET base == square_to_coords(Trimmed[NLetters]).val
               d == digits(DigitPart).val
           IN  /\ (base[1] * 100000) + d[1] < 500000
               /\ (base[2] * 100000) + d[2] < 500000
               /\ ret.tag = "Ok"
               /\ ret.val.point.eastings = (base[1] * 100000) + d[1]
               /\ ret.val.point.northings = (base[2] * 100000) + d[2]
      /\ (/\ LettersValid
          /\ DigitsOnly(DigitPart)
          /\ Len(DigitPart) \in LegalDigitCounts) => ret.tag = "Ok"

C28_Witness ==
    /\ call.op = "OSI::from_str"
    /\ call.args.s = <<"E", "8", "9", "2", "9", "1", "4", "3", "7", "6", "2">>
    /\ ret.tag = "Ok"
    /\ ret.val.point.eastings = 489291
    /\ ret.val.point.northings = 443762

\* The coarser of two precisions.
Coarsest(p, q) == IF PrecisionOrd(p) <= PrecisionOrd(q) THEN p ELSE q

\* C29: recalculate calls compose.  When a reference x is recalculated to p,
\* giving y, a further recalculate of y to any precision q gives what x
\* recalculated once to the coarser of p and q gives, and what the two calls
\* in the other order give; recalculating y to p again gives y; and the
\* precision of y is not finer than that of x.  By induction a sequence of
\* calls p1..pk equals one call with the coarsest of them.
C29_RecalculateComposes ==
    [][/\ (call'.op = "OSGB::recalculate" /\ osgb.tag = "Some") =>
            LET x == osgb.val
                p == call'.args.precision
                y == osgb'.val
            IN  /\ ret' = Ok(y)
                /\ ~Finer(y.point.precision, x.point.precision)
                /\ OSGB_recalculate(y, p) = y
                /\ \A q \in Precision :
                     /\ OSGB_recalculate(y, q) = OSGB_recalculate(x, Coarsest(p, q))
                     /\ OSGB_recalculate(y, q) = OSGB_recalculate(OSGB_recalculate(x, q), p)
       /\ (call'.op = "OSI::recalculate" /\ osi.tag = "Some") =>
            LET x == osi.val
                p == call'.args.precision
                y == osi'.val
            IN  /\ ret' = Ok(y)
                /\ ~Finer(y.point.precision, x.point.precision)
                /\ OSI_recalculate(y, p) = y
                /\ \A q \in Precision :
                     /\ OSI_recalculate(y, q) = OSI_recalculate(x, Coarsest(p, q))
                     /\ OSI_recalculate(y, q) = OSI_recalculate(OSI_recalculate(x, q), p)]_vars

C29_Witness ==
    /\ call.op = "OSI::recalculate"
    /\ call.args.precision = "_100M"
    /\ origin = "new"
    /\ ret = Ok(osi.val)
    /\ osi.val.point = [eastings |-> 389000, northings |-> 243000, precision |-> "_1Km"]

====
